---------------------------- MODULE Spec2Model ----------------------------
(***************************************************************************)
(* Model of the detection engine of pdf-detector.                          *)
(*                                                                         *)
(*   Spec          the parallel match driver                               *)
(*                 OptimizedSequenceGenerator.find_similar_sequences_      *)
(*                 parallel, fed with the fragment lists that              *)
(*                 SequenceGenerator.generate_from_paragraphs and          *)
(*                 SimilarityService._convert_to_sequence_info build.      *)
(*   SpecPipeline  ComparisonPipeline.execute over its stage list.         *)
(*                                                                         *)
(* Text is a sequence of character codes: 0 is the space, 1..99 stand for  *)
(* codepoints of U+4E00..U+9FFF, 101..126 for a..z, 131..156 for A..Z and  *)
(* 200..209 for 0..9.  A similarity is the exact rational 2*M/T that       *)
(* difflib's ratio() rounds to a double, kept as <<numerator, denominator>>*)
(* and compared by cross-multiplication.                                   *)
(***************************************************************************)
EXTENDS Integers, Sequences, FiniteSets, TLC

(***************************************************************************)
(* Bounds of the model.                                                    *)
(***************************************************************************)
\* max_sequences: the cap on the fragments kept per document
MaxSequences == 3
\* worker processes of the pool (num_processes is drawn from 1..MaxProcesses)
MaxProcesses == 2
\* floor of the chunk size; the source uses 100 (optimized_sequence_generator.py
\* line 824), the model a small floor so that runs with several chunks stay
\* within the other bounds
MinChunkSize == 2

\* length of a sketch key (sequence[:4], sequence[-4:])
SketchLen == 4
\* a second sketch key is taken when the sequence has at least this many characters
LongSeqLen == 8
\* calculate_similarity rejects when the word counts differ by more than this
MaxWordDiff == 2

Space == 0

(***************************************************************************)
(* SymbolCleaner: the character classes.                                   *)
(***************************************************************************)
is_chinese(c) == c \in 1..99

is_english(c) == c \in 101..126 \/ c \in 131..156

is_digit(c) == c \in 200..209

isspace(c) == c = Space
\* SymbolCleaner.is_valid_char
is_valid_char(c) == is_chinese(c) \/ is_english(c) \/ is_digit(c)

(***************************************************************************)
(* Generic helpers on sequences.                                           *)
(***************************************************************************)
RECURSIVE Flatten(_)
Flatten(ss) == IF ss = <<>> THEN <<>> ELSE Head(ss) \o Flatten(Tail(ss))

Range(s) == {s[i] : i \in DOMAIN s}

Min2(a, b) == IF a <= b THEN a ELSE b

Max2(a, b) == IF a >= b THEN a ELSE b

Abs(x) == IF x < 0 THEN -x ELSE x

(***************************************************************************)
(* Tokenizer.tokenize: one token per Chinese character, one per run of     *)
(* letters, one per run of digits; spaces separate and are dropped.        *)
(***************************************************************************)
RECURSIVE RunEnd(_, _, _)
\* first position >= i (1-based) whose character is not of the class, or Len+1
RunEnd(text, i, kind) ==
    IF i > Len(text) THEN i
    ELSE IF (kind = "english" /\ is_english(text[i]))
            \/ (kind = "number" /\ is_digit(text[i]))
            \/ (kind = "space" /\ isspace(text[i]))
         THEN RunEnd(text, i + 1, kind)
         ELSE i

RECURSIVE TokenizeFrom(_, _)
TokenizeFrom(text, i) ==
    IF i > Len(text) THEN <<>>
    ELSE LET c == text[i] IN
         IF is_english(c) \/ is_digit(c)
         THEN LET kind == IF is_english(c) THEN "english" ELSE "number"
                  j == RunEnd(text, i, kind)
              IN  <<[text |-> SubSeq(text, i, j - 1), token_type |-> kind,
                     start_pos |-> i - 1, end_pos |-> j - 1]>>
                  \o TokenizeFrom(text, RunEnd(text, j, "space"))
         ELSE IF is_chinese(c)
         THEN <<[text |-> <<c>>, token_type |-> "chinese",
                 start_pos |-> i - 1, end_pos |-> i]>>
              \o TokenizeFrom(text, i + 1)
         ELSE TokenizeFrom(text, i + 1)

tokenize(clean_text) == TokenizeFrom(clean_text, 1)

(***************************************************************************)
(* SymbolCleaner.clean_text: a run of letters becomes one lower-case word, *)
(* a run of digits with its periods one number without them, a Chinese     *)
(* character stays, every other character is dropped.  After a word or a   *)
(* number the white space is skipped, and one space is put behind it when  *)
(* the next character is a letter or a digit.                              *)
(***************************************************************************)
\* the period of a number (100.5), standing for the punctuation as well
Period == 250

\* a cleaner that keeps the case of a letter
lower_none(c) == c

\* str.lower() of a letter
lower(c) == IF c \in 131..156 THEN c - 30 ELSE c

RECURSIVE NumberEnd(_, _)
\* the end of a number whose digits end before position j: while text[j] is a
\* period it is skipped with the digits behind it
NumberEnd(text, j) ==
    IF j <= Len(text) /\ text[j] = Period
    THEN NumberEnd(text, RunEnd(text, j + 1, "number"))
    ELSE j

\* the word or number, and behind it a space when the text goes on at position k
\* with a letter or a digit
WithSeparator(word, text, k) ==
    IF k <= Len(text) /\ (is_english(text[k]) \/ is_digit(text[k]))
    THEN word \o <<Space>>
    ELSE word

RECURSIVE CleanFrom(_, _)
CleanFrom(text, i) ==
    IF i > Len(text) THEN <<>>
    ELSE LET c == text[i] IN
         IF is_english(c)
         THEN LET j == RunEnd(text, i, "english")
                  word == [k \in 1..(j - i) |-> lower(text[i + k - 1])]
                  next == RunEnd(text, j, "space")
              IN  WithSeparator(word, text, next) \o CleanFrom(text, next)
         ELSE IF is_digit(c)
         THEN LET j == NumberEnd(text, RunEnd(text, i, "number"))
                  number == SelectSeq(SubSeq(text, i, j - 1), is_digit)
                  next == RunEnd(text, j, "space")
              IN  WithSeparator(number, text, next) \o CleanFrom(text, next)
         ELSE IF is_chinese(c)
         THEN <<c>> \o CleanFrom(text, i + 1)
         ELSE CleanFrom(text, i + 1)

RECURSIVE StripTrailing(_)
\* while result and result[-1] == ' ': result.pop()
StripTrailing(result) ==
    IF result # <<>> /\ result[Len(result)] = Space
    THEN StripTrailing(SubSeq(result, 1, Len(result) - 1))
    ELSE result

clean_text(text) == StripTrailing(CleanFrom(text, 1))

(***************************************************************************)
(* SequenceGenerator.generate_from_paragraphs: every window of             *)
(* sequence_length consecutive tokens of every paragraph, in paragraph     *)
(* order and then window order.  `sequence` is the window's token texts    *)
(* joined without separator.                                               *)
(***************************************************************************)
\* ' '.join of the token texts
RECURSIVE JoinSpaced(_)
JoinSpaced(texts) ==
    IF texts = <<>> THEN <<>>
    ELSE IF Len(texts) = 1 THEN Head(texts)
    ELSE Head(texts) \o <<Space>> \o JoinSpaced(Tail(texts))

\* a generator whose loop stops one window early
WindowsOf_short(tokens, para_idx, sequence_length) ==
    IF Len(tokens) < sequence_length THEN <<>>
    ELSE [i \in 1..(Len(tokens) - sequence_length) |->
            LET window_tokens == SubSeq(tokens, i, i + sequence_length - 1) IN
            [sequence |-> Flatten([j \in 1..sequence_length |-> window_tokens[j].text]),
             tokens |-> window_tokens,
             paragraph_index |-> para_idx,
             start_token_pos |-> i - 1,
             start_pos |-> window_tokens[1].start_pos]]

\* a generator that joins the token texts with spaces
WindowsOf_spaced(tokens, para_idx, sequence_length) ==
    IF Len(tokens) < sequence_length THEN <<>>
    ELSE [i \in 1..(Len(tokens) - sequence_length + 1) |->
            LET window_tokens == SubSeq(tokens, i, i + sequence_length - 1) IN
            [sequence |-> JoinSpaced([j \in 1..sequence_length |-> window_tokens[j].text]),
             tokens |-> window_tokens,
             paragraph_index |-> para_idx,
             start_token_pos |-> i - 1,
             start_pos |-> window_tokens[1].start_pos]]

\* the windows of one paragraph: range(len(tokens) - sequence_length + 1)
WindowsOf(tokens, para_idx, sequence_length) ==
    IF Len(tokens) < sequence_length THEN <<>>
    ELSE [i \in 1..(Len(tokens) - sequence_length + 1) |->
            LET window_tokens == SubSeq(tokens, i, i + sequence_length - 1) IN
            [sequence |-> Flatten([j \in 1..sequence_length |-> window_tokens[j].text]),
             tokens |-> window_tokens,
             paragraph_index |-> para_idx,
             start_token_pos |-> i - 1,
             start_pos |-> window_tokens[1].start_pos]]

generate_from_paragraphs(paragraphs, sequence_length) ==
    Flatten([p \in 1..Len(paragraphs) |->
                WindowsOf(tokenize(paragraphs[p]), p - 1, sequence_length)])

(***************************************************************************)
(* SimilarityService._convert_to_sequence_info: start_index is the         *)
(* fragment's index in its list.  The paragraph index and the token start  *)
(* are kept beside it (the service reads them back through start_index).   *)
(***************************************************************************)
\* _detect_similarity_sync: sequences_list[:max_sequences]
limit_sequences(sequences_list, max_sequences) ==
    SubSeq(sequences_list, 1, Min2(Len(sequences_list), max_sequences))

convert_to_sequence_info(sequences_list) ==
    [i \in 1..Len(sequences_list) |->
        [sequence |-> sequences_list[i].sequence,
         start_index |-> i - 1,
         paragraph_index |-> sequences_list[i].paragraph_index,
         start_token_pos |-> sequences_list[i].start_token_pos]]


(***************************************************************************)
(* difflib.SequenceMatcher(None, a, b): find_longest_match, the matching   *)
(* blocks and ratio().  No element is junk here: autojunk only applies to  *)
(* sequences of 200 elements or more.                                      *)
(***************************************************************************)
RECURSIVE CommonRun(_, _, _, _, _, _)
\* length of the common run of a[i..ahi-1] and b[j..bhi-1] (0-based, hi exclusive)
CommonRun(a, i, ahi, b, j, bhi) ==
    IF i < ahi /\ j < bhi /\ a[i + 1] = b[j + 1]
    THEN 1 + CommonRun(a, i + 1, ahi, b, j + 1, bhi)
    ELSE 0

\* the longest matching block in a[alo:ahi], b[blo:bhi]: of the longest ones the one
\* starting earliest in a, and of those the one starting earliest in b
find_longest_match(a, alo, ahi, b, blo, bhi) ==
    LET Starts == (alo..(ahi - 1)) \X (blo..(bhi - 1))
        size == [p \in Starts |-> CommonRun(a, p[1], ahi, b, p[2], bhi)]
        best == CHOOSE k \in 0..(ahi - alo) :
                    /\ k = 0 \/ \E p \in Starts : size[p] = k
                    /\ \A p \in Starts : size[p] <= k
        i == CHOOSE x \in alo..(ahi - 1) :
                    /\ \E p \in Starts : p[1] = x /\ size[p] = best
                    /\ \A p \in Starts : size[p] = best => x <= p[1]
        j == CHOOSE y \in blo..(bhi - 1) :
                    /\ size[<<i, y>>] = best
                    /\ \A z \in blo..(y - 1) : size[<<i, z>>] # best
    IN  IF Starts = {} \/ best = 0 THEN <<alo, blo, 0>> ELSE <<i, j, best>>

RECURSIVE MatchedCount(_, _, _, _, _, _)
\* the total size of get_matching_blocks() over a[alo:ahi], b[blo:bhi]
MatchedCount(a, alo, ahi, b, blo, bhi) ==
    LET m == find_longest_match(a, alo, ahi, b, blo, bhi) IN
    IF m[3] = 0 THEN 0
    ELSE m[3]
         + (IF alo < m[1] /\ blo < m[2]
            THEN MatchedCount(a, alo, m[1], b, blo, m[2]) ELSE 0)
         + (IF m[1] + m[3] < ahi /\ m[2] + m[3] < bhi
            THEN MatchedCount(a, m[1] + m[3], ahi, b, m[2] + m[3], bhi) ELSE 0)

\* ratio() = 2.0 * matches / (len(a) + len(b)), and 1.0 when both are empty
ratio(a, b) ==
    IF Len(a) + Len(b) = 0 THEN <<1, 1>>
    ELSE <<2 * MatchedCount(a, 0, Len(a), b, 0, Len(b)), Len(a) + Len(b)>>

(***************************************************************************)
(* str.split(): the number of maximal runs of non-space characters.        *)
(***************************************************************************)
WordCount(s) ==
    Cardinality({i \in 1..Len(s) : s[i] # Space /\ (i = 1 \/ s[i - 1] = Space)})

(***************************************************************************)
(* FastSimilarityCalculator.                                               *)
(***************************************************************************)
calculate_similarity(seq1, seq2) ==
    IF Abs(WordCount(seq1) - WordCount(seq2)) > MaxWordDiff THEN <<0, 1>>
    ELSE ratio(seq1, seq2)

\* similarity >= min_similarity, min_similarity given in hundredths
AtLeast(similarity, min_similarity) ==
    similarity[1] * 100 >= min_similarity * similarity[2]

\* a variant of the gate that lets every pair through
is_similar_any(similarity, min_similarity) == TRUE

is_similar(similarity, min_similarity) == AtLeast(similarity, min_similarity)

\* x.similarity > y.similarity, exactly
SimGreater(x, y) == x[1] * y[2] > y[1] * x[2]

SimEqual(x, y) == x[1] * y[2] = y[1] * x[2]


(***************************************************************************)
(* hashlib.md5(key.encode()).hexdigest()[:8]: a fixed function of the key  *)
(* into a finite space of signatures, in which distinct keys may collide.  *)
(***************************************************************************)
\* number of signatures of the model (16^8 in the source)
HashSpace == 11

RECURSIVE md5_8(_)
md5_8(key) ==
    IF key = <<>> THEN 7
    ELSE (md5_8(SubSeq(key, 1, Len(key) - 1)) * 31 + key[Len(key)]) % HashSpace

(***************************************************************************)
(* The sketch keys of a sequence, as create_hash_lookup_table and the      *)
(* candidate generation of find_similar_sequences_parallel compute them:   *)
(* the list of hashed keys in the order the code takes them.               *)
(***************************************************************************)
\* the words of sequence.split(), as <<first, last>> positions
WordSpans(s) ==
    LET starts == {i \in 1..Len(s) : s[i] # Space /\ (i = 1 \/ s[i - 1] = Space)}
        endOf(i) == CHOOSE j \in i..Len(s) :
                        /\ \A k \in i..j : s[k] # Space
                        /\ (j = Len(s) \/ s[j + 1] = Space)
        nth[k \in 1..Cardinality(starts)] ==
            CHOOSE i \in starts : Cardinality({x \in starts : x < i}) = k - 1
    IN  [k \in 1..Cardinality(starts) |-> <<nth[k], endOf(nth[k])>>]

RECURSIVE JoinWords(_, _, _)
\* " ".join of the words of s at the given indices (1-based)
JoinWords(s, spans, idxs) ==
    IF idxs = <<>> THEN <<>>
    ELSE LET w == SubSeq(s, spans[Head(idxs)][1], spans[Head(idxs)][2]) IN
         IF Len(idxs) = 1 THEN w
         ELSE w \o <<Space>> \o JoinWords(s, spans, Tail(idxs))

sketch_keys(sequence) ==
    LET spans == WordSpans(sequence)
        nw == Len(spans)
        n == Len(sequence)
    IN  IF nw = 1
        THEN (IF n >= SketchLen THEN <<md5_8(SubSeq(sequence, 1, SketchLen))>> ELSE <<>>)
             \o (IF n >= SketchLen /\ n >= LongSeqLen
                 THEN <<md5_8(SubSeq(sequence, n - SketchLen + 1, n))>> ELSE <<>>)
        ELSE (IF nw >= 4
              THEN <<md5_8(JoinWords(sequence, spans, <<1, 2, 3, 4>>)),
                     md5_8(JoinWords(sequence, spans, <<nw - 3, nw - 2, nw - 1, nw>>))>>
              ELSE <<>>)
             \o (IF nw >= 8
                 THEN <<md5_8(JoinWords(sequence, spans, <<1, 3, 5, 7>>))>> ELSE <<>>)

\* create_hash_lookup_table: the bucket of a signature, the fragments of `sequences`
\* (by index) appended in list order, once per sketch key that hashes to it
RECURSIVE Bucket(_, _, _)
Bucket(sequences, h, i) ==
    IF i > Len(sequences) THEN <<>>
    ELSE LET ks == sketch_keys(sequences[i].sequence) IN
         [k \in 1..Cardinality({j \in 1..Len(ks) : ks[j] = h}) |-> i]
         \o Bucket(sequences, h, i + 1)

create_hash_lookup_table(sequences) ==
    [h \in 0..(HashSpace - 1) |-> Bucket(sequences, h, 1)]

\* a list without its repeated elements, first occurrences kept in order
RECURSIVE Unique(_)
Unique(s) ==
    IF s = <<>> THEN <<>>
    ELSE LET r == Unique(SubSeq(s, 1, Len(s) - 1)) IN
         IF s[Len(s)] \in Range(r) THEN r ELSE Append(r, s[Len(s)])

\* the candidates of one fragment of file 1: the buckets of its signatures (a set of
\* signatures in the code), concatenated and deduplicated by object identity
candidates_of(seq1, file2_hash_table) ==
    Unique(Flatten([k \in 1..Len(Unique(sketch_keys(seq1.sequence))) |->
                        file2_hash_table[Unique(sketch_keys(seq1.sequence))[k]]]))

\* candidate_pairs: (index in file 1, index in file 2), in file 1 order
generate_candidate_pairs(file1, file2) ==
    LET table == create_hash_lookup_table(file2) IN
    Flatten([a \in 1..Len(file1) |->
                LET cs == candidates_of(file1[a], table) IN
                [k \in 1..Len(cs) |-> <<a, cs[k]>>]])

\* chunk_size = max(floor, len(candidate_pairs) // num_processes)
chunk_size_of(n_pairs, processes) == Max2(MinChunkSize, n_pairs \div processes)

\* the chunks: of each run of chunk_size candidate pairs only pair[0] is kept; the
\* worker gets that list and the whole of file 2
make_chunks(pairs, processes) ==
    LET cs == chunk_size_of(Len(pairs), processes)
        n == (Len(pairs) + cs - 1) \div cs
    IN  [c \in 1..n |->
            [k \in 1..(Min2(c * cs, Len(pairs)) - (c - 1) * cs) |->
                pairs[(c - 1) * cs + k][1]]]


(***************************************************************************)
(* _remove_duplicates and the final sort.  A match is                      *)
(* [a, b, similarity]: the positions (1-based) of its two fragments in     *)
(* file1_sequences and file2_sequences, and the score.                     *)
(***************************************************************************)
\* the identifier of _remove_duplicates: (sequence1.sequence, sequence2.sequence)
identifier(m, file1, file2) == <<file1[m.a].sequence, file2[m.b].sequence>>

\* a variant without the deduplication: the list as it is
remove_duplicates_none(sequences, file1, file2) == sequences

RECURSIVE remove_duplicates(_, _, _)
remove_duplicates(sequences, file1, file2) ==
    IF sequences = <<>> THEN <<>>
    ELSE LET n == Len(sequences)
             kept == remove_duplicates(SubSeq(sequences, 1, n - 1), file1, file2)
             seen == {identifier(kept[i], file1, file2) : i \in DOMAIN kept}
         IN  IF identifier(sequences[n], file1, file2) \in seen
             THEN kept
             ELSE Append(kept, sequences[n])

\* a variant without the sort: the list left in merge order
sort_by_similarity_none(ms) == ms

\* list.sort(key=lambda x: x.similarity, reverse=True): stable, so matches of equal
\* similarity keep the order they had
RECURSIVE sort_by_similarity(_)
sort_by_similarity(ms) ==
    IF ms = <<>> THEN <<>>
    ELSE LET n == Len(ms)
             sorted == sort_by_similarity(SubSeq(ms, 1, n - 1))
             x == ms[n]
             \* x goes after every element that is not smaller than it
             k == Cardinality({i \in DOMAIN sorted :
                                  ~SimGreater(x.similarity, sorted[i].similarity)})
         IN  SubSeq(sorted, 1, k) \o <<x>> \o SubSeq(sorted, k + 1, Len(sorted))

(***************************************************************************)
(* The documents the runs are drawn from: paragraphs given by their clean  *)
(* text.  2..7 and 11 are the characters of the spec's scenario 4          *)
(* (2 3 4 5 6 7 = jin tian chi le yi ge, 11 = zuo), 8 another character.   *)
(***************************************************************************)
ParaSet ==
    { <<2, 3, 4, 5, 6, 7>>,
      <<11, 3, 4, 5, 6, 7>>,
      <<2, 3, 4, 5, 8>> }

DocLengths == {0, 1, 2}

Documents == UNION {[1..n -> ParaSet] : n \in DocLengths}

SequenceLengths == {5}

\* min_similarity, in hundredths
Thresholds == {60, 80}

\* every sequence a fragment of these documents can have
KeyUniverse ==
    UNION {{f.sequence : f \in Range(generate_from_paragraphs(<<p>>, n))} :
              p \in ParaSet, n \in SequenceLengths}

\* calculate_similarity over the sequences of the model, computed once
similarity_table ==
    {[seq1 |-> k1, seq2 |-> k2, similarity |-> calculate_similarity(k1, k2)] :
        k1 \in KeyUniverse, k2 \in KeyUniverse}

similarity_of(seq1, seq2) ==
    (CHOOSE r \in similarity_table : r.seq1 = seq1 /\ r.seq2 = seq2).similarity

VARIABLES
    file1_sequences,        \* the fragments of document 1 (SequenceInfo list)
    file2_sequences,        \* the fragments of document 2
    min_similarity,         \* the threshold the generator was built with
    num_processes,          \* the size of the process pool
    driver_pc,              \* "start", "collect", "callback", "done"
    candidate_pairs,        \* the candidate pairs of the pre-filter
    chunks,                 \* file1_chunk of every submitted chunk
    fut_state,              \* per chunk: "queued", "running", "done", "failed"
    fut_pos,                \* per chunk: pairs its worker has scored so far
    fut_result,             \* per chunk: similar_sequences of its worker
    next_future,            \* the future the driver waits for next
    all_similar_sequences,  \* the merged results
    completed,              \* the driver's count of collected chunks
    progress_calls,         \* the calls of progress_callback, in call order
    unique_sequences,       \* the returned list
    cancel_requested,       \* the caller asked to cancel the compare
    active_callbacks,       \* the calls of progress_callback that have not returned
    finish_order            \* the chunks in the order their workers ended

driver_vars ==
    <<file1_sequences, file2_sequences, min_similarity, num_processes, driver_pc,
      candidate_pairs, chunks, fut_state, fut_pos, fut_result, next_future,
      all_similar_sequences, completed, progress_calls, unique_sequences,
      cancel_requested, active_callbacks, finish_order>>

VARIABLES
    stage_classes,          \* ComparisonPipeline.stage_classes, by class name
    request,                \* the ComparisonRequest of the compare
    env,                    \* the files on disk and what the services answer
    context,                \* the PipelineContext of the run
    stage_index,            \* stages of the loop of execute that have succeeded
    stage_log,              \* the stages whose process() execute has called
    execute_result,         \* what execute returned
    warning_log,            \* the warnings of the stages that execute has logged
    pipeline_pc             \* "idle", "created", "running", "returned"

pipeline_vars ==
    <<stage_classes, request, env, context, stage_index, stage_log, execute_result,
      warning_log, pipeline_pc>>

VARIABLES
    raw_text,               \* the raw text of a paragraph
    text_sequence_length,   \* SequenceGenerator.sequence_length
    text_max_sequences,     \* the max_sequences of the compare
    clean,                  \* Paragraph.clean_text
    text_tokens,            \* Paragraph.tokens
    sequences,              \* what generate_from_paragraphs returned
    kept,                   \* the fragments left after the cap
    hash_keys,              \* per kept fragment: its sketch keys
    text_context,           \* the context reported for one fragment kept
    text_pc                 \* "idle", "raw", "clean", "generated", "limited", "indexed",
                            \* "reported"

text_vars ==
    <<raw_text, text_sequence_length, text_max_sequences, clean, text_tokens,
      sequences, kept, hash_keys, text_context, text_pc>>

VARIABLES
    scorer_seq1,            \* the first argument of calculate_similarity
    scorer_seq2,            \* the second argument
    scorer_min_similarity,  \* min_similarity of the calculator
    scorer_similarity,      \* what calculate_similarity returned
    scorer_similar,         \* what is_similar returned: the pair is reported
    scorer_pc               \* "idle", "start", "scored"

scorer_vars ==
    <<scorer_seq1, scorer_seq2, scorer_min_similarity, scorer_similarity,
      scorer_similar, scorer_pc>>

VARIABLES
    service_mode,           \* processing_mode of detect_similarity
    service_min_similarity, \* min_similarity asked for, in hundredths
    service_max_sequences,  \* max_sequences asked for
    service_scores,         \* the similarities of the pairs compared, in hundredths
    service_threshold,      \* similarity_threshold returned by _configure_processing
    service_max_seqs,       \* max_seqs returned by _configure_processing
    service_similar,        \* the similarities of the similar sequences found
    service_stats,          \* the SimilarityStatistics of the result
    service_pc              \* "idle", "start", "configured", "detected", "done"

service_vars ==
    <<service_mode, service_min_similarity, service_max_sequences, service_scores,
      service_threshold, service_max_seqs, service_similar, service_stats, service_pc>>

VARIABLES
    active_tasks,           \* main.active_tasks: task id -> task info
    task_coro,              \* per task id, the background task of the compare
    next_task_id,           \* the ids handed out so far are 1..next_task_id - 1
    key_errors,             \* the ids whose background task wrote to a removed entry
    deleting                \* the ids whose delete_task awaits cleanup_files

task_vars == <<active_tasks, task_coro, next_task_id, key_errors, deleting>>

vars == <<driver_vars, pipeline_vars, text_vars, scorer_vars, service_vars, task_vars>>

DriverInit ==
    /\ \E d1 \in Documents, d2 \in Documents, n \in SequenceLengths :
          /\ file1_sequences = convert_to_sequence_info(
                  limit_sequences(generate_from_paragraphs(d1, n), MaxSequences))
          /\ file2_sequences = convert_to_sequence_info(
                  limit_sequences(generate_from_paragraphs(d2, n), MaxSequences))
    /\ min_similarity \in Thresholds
    /\ num_processes \in 1..MaxProcesses
    /\ driver_pc = "start"
    /\ candidate_pairs = <<>>
    /\ chunks = <<>>
    /\ fut_state = <<>>
    /\ fut_pos = <<>>
    /\ fut_result = <<>>
    /\ next_future = 1
    /\ all_similar_sequences = <<>>
    /\ completed = 0
    /\ progress_calls = <<>>
    /\ unique_sequences = <<>>
    /\ cancel_requested = FALSE
    /\ active_callbacks = {}
    /\ finish_order = <<>>

\* no compare in the driver: its variables stay as they are here
DriverIdle ==
    /\ file1_sequences = <<>>
    /\ file2_sequences = <<>>
    /\ min_similarity = 60
    /\ num_processes = 1
    /\ driver_pc = "idle"
    /\ candidate_pairs = <<>>
    /\ chunks = <<>>
    /\ fut_state = <<>>
    /\ fut_pos = <<>>
    /\ fut_result = <<>>
    /\ next_future = 1
    /\ all_similar_sequences = <<>>
    /\ completed = 0
    /\ progress_calls = <<>>
    /\ unique_sequences = <<>>
    /\ cancel_requested = FALSE
    /\ active_callbacks = {}
    /\ finish_order = <<>>

(***************************************************************************)
(* find_similar_sequences_parallel, up to the submission of the chunks.    *)
(***************************************************************************)
Submit ==
    /\ driver_pc = "start"
    /\ candidate_pairs' = generate_candidate_pairs(file1_sequences, file2_sequences)
    /\ chunks' = make_chunks(candidate_pairs', num_processes)
    /\ fut_state' = [c \in 1..Len(chunks') |-> "queued"]
    /\ fut_pos' = [c \in 1..Len(chunks') |-> 0]
    /\ fut_result' = [c \in 1..Len(chunks') |-> <<>>]
    /\ driver_pc' = "collect"
    /\ UNCHANGED <<pipeline_vars, text_vars, scorer_vars, service_vars, task_vars>>
    /\ UNCHANGED <<file1_sequences, file2_sequences, min_similarity, num_processes,
                   next_future, all_similar_sequences, completed, progress_calls,
                   unique_sequences, cancel_requested, active_callbacks,
                   finish_order>>

(***************************************************************************)
(* The pool: a free worker takes the oldest queued chunk.                  *)
(***************************************************************************)
WorkerStart(c) ==
    /\ driver_pc \in {"collect", "callback"}
    /\ fut_state[c] = "queued"
    /\ \A d \in 1..(c - 1) : fut_state[d] # "queued"
    /\ Cardinality({d \in DOMAIN fut_state : fut_state[d] = "running"}) < num_processes
    /\ fut_state' = [fut_state EXCEPT ![c] = "running"]
    /\ UNCHANGED <<pipeline_vars, text_vars, scorer_vars, service_vars, task_vars>>
    /\ UNCHANGED <<file1_sequences, file2_sequences, min_similarity, num_processes,
                   driver_pc, candidate_pairs, chunks, fut_pos, fut_result,
                   next_future, all_similar_sequences, completed, progress_calls,
                   unique_sequences, cancel_requested, active_callbacks,
                   finish_order>>

(***************************************************************************)
(* _compare_sequences_chunk: one turn of the inner loop.  The k-th pair    *)
(* of a chunk is (file1_chunk[k div n2], file2_sequences[k mod n2]): both  *)
(* branches of the hash pre-check score the pair and keep it when          *)
(* is_similar.                                                             *)
(***************************************************************************)
PairAt(c, k) ==
    <<chunks[c][(k \div Len(file2_sequences)) + 1], (k % Len(file2_sequences)) + 1>>

PairsOf(c) == Len(chunks[c]) * Len(file2_sequences)

WorkerScore(c) ==
    /\ fut_state[c] = "running"
    /\ fut_pos[c] < PairsOf(c)
    /\ LET p == PairAt(c, fut_pos[c])
           similarity == similarity_of(file1_sequences[p[1]].sequence,
                                       file2_sequences[p[2]].sequence)
       IN  fut_result' =
              [fut_result EXCEPT ![c] =
                  IF is_similar(similarity, min_similarity)
                  THEN Append(@, [a |-> p[1], b |-> p[2], similarity |-> similarity])
                  ELSE @]
    /\ fut_pos' = [fut_pos EXCEPT ![c] = @ + 1]
    /\ fut_state' = [fut_state EXCEPT
                        ![c] = IF fut_pos[c] + 1 = PairsOf(c) THEN "done" ELSE @]
    /\ finish_order' = IF fut_pos[c] + 1 = PairsOf(c)
                       THEN Append(finish_order, c) ELSE finish_order
    /\ UNCHANGED <<pipeline_vars, text_vars, scorer_vars, service_vars, task_vars>>
    /\ UNCHANGED <<file1_sequences, file2_sequences, min_similarity, num_processes,
                   driver_pc, candidate_pairs, chunks, next_future,
                   all_similar_sequences, completed, progress_calls,
                   unique_sequences, cancel_requested, active_callbacks>>

\* the worker's call raises (or its process dies): the future holds an exception and
\* the worker's list of matches is lost
WorkerFail(c) ==
    /\ fut_state[c] = "running"
    /\ fut_state' = [fut_state EXCEPT ![c] = "failed"]
    /\ fut_result' = [fut_result EXCEPT ![c] = <<>>]
    /\ finish_order' = Append(finish_order, c)
    /\ UNCHANGED <<pipeline_vars, text_vars, scorer_vars, service_vars, task_vars>>
    /\ UNCHANGED <<file1_sequences, file2_sequences, min_similarity, num_processes,
                   driver_pc, candidate_pairs, chunks, fut_pos,
                   next_future, all_similar_sequences, completed, progress_calls,
                   unique_sequences, cancel_requested, active_callbacks>>

\* a loop over the futures in the order their workers ended: the k-th future is
\* the k-th of finish_order, and while fewer than k workers have ended it is one
\* that is still at work
collected_future_as_completed(k, order) ==
    IF k <= Len(order) THEN order[k]
    ELSE CHOOSE c \in 1..k : c \notin Range(order)

\* for future in futures: the k-th turn of the loop waits for the k-th future
\* submitted, whatever the order in which the workers ended
collected_future(k, order) == k

\* list.extend put before the list instead of behind it
extend_front(list, items) == items \o list

\* all_similar_sequences.extend(chunk_result)
extend(list, items) == list \o items

\* a call of the callback that reports the count before its increment
progress_call_stale(done, total) ==
    [progress |-> <<done - 1, total>>, completed |-> done - 1, total |-> total]

\* the arguments of progress_callback(progress, completed, len(chunks)); progress is
\* the fraction completed / len(chunks), kept as <<numerator, denominator>>
progress_call(done, total) ==
    [progress |-> <<done, total>>, completed |-> done, total |-> total]

\* a driver that would go on with its loop while the callback runs
after_invoke_async == "collect"

\* the callback is an ordinary call in the driver's loop: the driver is inside it
\* until it returns
after_invoke == "callback"

(***************************************************************************)
(* The driver's loop over the futures, in submission order: future.result()*)
(* blocks until the chunk is done; an exception is printed and the loop    *)
(* goes on.  After a chunk that is done the driver calls progress_callback.*)
(***************************************************************************)
Collect ==
    /\ driver_pc = "collect"
    /\ next_future <= Len(chunks)
    /\ fut_state[collected_future(next_future, finish_order)] \in {"done", "failed"}
    /\ IF fut_state[collected_future(next_future, finish_order)] = "done"
       THEN /\ all_similar_sequences' =
                  extend(all_similar_sequences,
                         fut_result[collected_future(next_future, finish_order)])
            /\ completed' = completed + 1
            /\ progress_calls' =
                  Append(progress_calls, progress_call(completed + 1, Len(chunks)))
            /\ active_callbacks' = active_callbacks \cup
                  {[invoker |-> "driver",
                    call |-> progress_call(completed + 1, Len(chunks))]}
            /\ driver_pc' = after_invoke
       ELSE UNCHANGED <<all_similar_sequences, completed, progress_calls,
                        active_callbacks, driver_pc>>
    /\ next_future' = next_future + 1
    /\ UNCHANGED <<pipeline_vars, text_vars, scorer_vars, service_vars, task_vars>>
    /\ UNCHANGED <<file1_sequences, file2_sequences, min_similarity, num_processes,
                   candidate_pairs, chunks, fut_state, fut_pos, fut_result,
                   unique_sequences, cancel_requested, finish_order>>

\* progress_callback returns and the driver's loop goes on
CallbackReturn ==
    /\ driver_pc = "callback"
    /\ active_callbacks' = {}
    /\ driver_pc' = "collect"
    /\ UNCHANGED <<pipeline_vars, text_vars, scorer_vars, service_vars, task_vars>>
    /\ UNCHANGED <<file1_sequences, file2_sequences, min_similarity, num_processes,
                   candidate_pairs, chunks, fut_state, fut_pos, fut_result,
                   next_future, all_similar_sequences, completed, progress_calls,
                   unique_sequences, cancel_requested, finish_order>>

\* after the loop: _remove_duplicates, the sort, the return
Return ==
    /\ driver_pc = "collect"
    /\ next_future > Len(chunks)
    /\ unique_sequences' =
          sort_by_similarity(remove_duplicates(all_similar_sequences,
                                               file1_sequences, file2_sequences))
    /\ driver_pc' = "done"
    /\ UNCHANGED <<pipeline_vars, text_vars, scorer_vars, service_vars, task_vars>>
    /\ UNCHANGED <<file1_sequences, file2_sequences, min_similarity, num_processes,
                   candidate_pairs, chunks, fut_state, fut_pos, fut_result,
                   next_future, all_similar_sequences, completed, progress_calls,
                   cancel_requested, active_callbacks, finish_order>>

(***************************************************************************)
(* delete_task on a running compare: task.cancel().  Nothing in the driver *)
(* or in its workers reads the request.                                    *)
(***************************************************************************)
CancelRequest ==
    /\ driver_pc \in {"collect", "callback"}
    /\ ~cancel_requested
    /\ cancel_requested' = TRUE
    /\ UNCHANGED <<pipeline_vars, text_vars, scorer_vars, service_vars, task_vars>>
    /\ UNCHANGED <<file1_sequences, file2_sequences, min_similarity, num_processes,
                   driver_pc, candidate_pairs, chunks, fut_state, fut_pos, fut_result,
                   next_future, all_similar_sequences, completed, progress_calls,
                   unique_sequences, active_callbacks, finish_order>>

(***************************************************************************)
(* The comparison pipeline (services/pipeline).  A value of the context is *)
(* [type, len]: None, a list of len elements, or an object of the named    *)
(* class.  Progress is in hundredths.                                      *)
(***************************************************************************)
\* stages/__init__.py: the stage classes in execution order
DEFAULT_STAGES ==
    <<"ValidationStage", "ExtractionStage", "PreprocessingStage",
      "SequenceGenerationStage", "SimilarityDetectionStage",
      "PostProcessingStage", "ExportStage">>

\* the stages that the runs of the model take out with remove_stage
RemovableStages == {"SimilarityDetectionStage", "PostProcessingStage"}

\* remove_stage: the list without the stages of that name
remove_stage(classes, stage_name) ==
    LET keep == {i \in DOMAIN classes : classes[i] # stage_name}
        nth[k \in 1..Cardinality(keep)] ==
            CHOOSE i \in keep : Cardinality({x \in keep : x < i}) = k - 1
    IN  [k \in 1..Cardinality(keep) |-> classes[nth[k]]]

None == [type |-> "NoneType", len |-> 0]

\* `not value`: None and the empty list are falsy
falsy(value) == value.type = "NoneType" \/ (value.type = "list" /\ value.len = 0)

\* value.paragraphs can be read: only a WebDocumentContent has the attribute
has_paragraphs(value) == value.type = "WebDocumentContent"

\* progress_range of the stage classes
progress_range(stage) ==
    CASE stage = "ValidationStage" -> <<0, 10>>
      [] stage = "ExtractionStage" -> <<10, 30>>
      [] stage = "PreprocessingStage" -> <<30, 40>>
      [] stage = "SequenceGenerationStage" -> <<40, 50>>
      [] stage = "SimilarityDetectionStage" -> <<50, 80>>
      [] stage = "PostProcessingStage" -> <<80, 90>>
      [] stage = "ExportStage" -> <<90, 100>>

\* a _report_progress that passes the local progress on as it is
global_progress_local(stage, p) == p * 10

\* start + (end - start) * progress, for the local progress p / 10
global_progress(stage, p) ==
    progress_range(stage)[1]
    + ((progress_range(stage)[2] - progress_range(stage)[1]) * p) \div 10


\* _report_progress(p / 10): the global progress is stored in context.progress and
\* passed to progress_callback; callback_calls is the list of those calls
report_progress(ctx, stage, p) ==
    [ctx EXCEPT !.progress = global_progress(stage, p),
                !.callback_calls =
                    Append(@, [stage |-> stage, progress |-> global_progress(stage, p)])]

RECURSIVE report_all(_, _, _)
\* the calls of _report_progress of one stage, in order
report_all(ctx, stage, ps) ==
    IF ps = <<>> THEN ctx
    ELSE report_all(report_progress(ctx, stage, Head(ps)), stage, Tail(ps))

\* PipelineContext.set_error
set_error(ctx, error) == [ctx EXCEPT !.error = error, !.status = "failed"]

\* a PipelineContext as execute creates it
NewContext ==
    [status |-> "pending", error |-> "None", current_stage |-> "pending",
     progress |-> 0, doc1_paragraphs |-> None, doc2_paragraphs |-> None,
     similarity_result |-> None, callback_calls |-> <<>>]

StageResult(success, error, ctx) ==
    [success |-> success, error |-> error, context |-> ctx, warnings |-> <<>>]

\* StageResult(..., warnings=warnings)
with_warnings(result, warnings) == [result EXCEPT !.warnings = warnings]

\* the warnings of ValidationStage for the parameters it only advises on
validation_warnings(req) ==
    (IF ~(4 <= req.sequence_length /\ req.sequence_length <= 20)
     THEN <<"sequence_length">> ELSE <<>>)
    \o (IF req.max_sequences < 100 \/ req.max_sequences > 100000
        THEN <<"max_sequences">> ELSE <<>>)
    \o (IF req.context_chars < 0 \/ req.context_chars > 1000
        THEN <<"context_chars">> ELSE <<>>)

\* what extract_document_content gives for a document: its paragraphs
extracted(doc) == [type |-> "list", len |-> IF doc = "empty" THEN 0 ELSE 1]

ValidationStage(ctx, req, e) ==
    LET S == "ValidationStage" IN
    IF ~req.pdf1_path \/ ~req.pdf2_path
    THEN StageResult(FALSE, "empty path",
                     set_error(report_all(ctx, S, <<0, 2>>), "empty path"))
    ELSE IF ~e.file1_valid
    THEN StageResult(FALSE, "file1 invalid",
                     set_error(report_all(ctx, S, <<0, 2, 3>>), "file1 invalid"))
    ELSE IF ~e.file2_valid
    THEN StageResult(FALSE, "file2 invalid",
                     set_error(report_all(ctx, S, <<0, 2, 3, 5>>), "file2 invalid"))
    ELSE IF ~(0 <= req.similarity_threshold /\ req.similarity_threshold <= 100)
    THEN StageResult(FALSE, "threshold out of range",
                     report_all(ctx, S, <<0, 2, 3, 5, 7>>))
    ELSE with_warnings(
             StageResult(TRUE, "None",
                         [report_all(ctx, S, <<0, 2, 3, 5, 7, 10>>)
                             EXCEPT !.status = "validating"]),
             validation_warnings(req))

ExtractionStage(ctx, req, e) ==
    LET S == "ExtractionStage"
        with1 == [ctx EXCEPT !.doc1_paragraphs = extracted(e.doc1)]
        with2 == [with1 EXCEPT !.doc2_paragraphs = extracted(e.doc2)]
    IN  IF e.doc1 = "raises"
        THEN StageResult(FALSE, "doc1 extraction failed",
                         set_error(report_all(ctx, S, <<0, 2>>),
                                   "doc1 extraction failed"))
        ELSE IF e.doc2 = "raises"
        THEN StageResult(FALSE, "doc2 extraction failed",
                         set_error(report_all(with1, S, <<0, 2, 6>>),
                                   "doc2 extraction failed"))
        ELSE StageResult(TRUE, "None",
                         [report_all(with2, S, <<0, 2, 6, 9, 10>>)
                             EXCEPT !.status = "extracting"])

PreprocessingStage(ctx, req, e) ==
    LET S == "PreprocessingStage" IN
    IF falsy(ctx.doc1_paragraphs) \/ falsy(ctx.doc2_paragraphs)
    THEN StageResult(FALSE, "no paragraphs",
                     set_error(report_all(ctx, S, <<0>>),
                               "no paragraphs, run extraction"))
    ELSE StageResult(TRUE, "None",
                     [report_all(ctx, S, <<0, 5, 10>>)
                         EXCEPT !.status = "preprocessing"])

SequenceGenerationStage(ctx, req, e) ==
    StageResult(TRUE, "None",
                [report_all(ctx, "SequenceGenerationStage", <<0, 1, 3, 6, 8, 10>>)
                    EXCEPT !.status = "generating_sequences"])

\* detect_similarity(context.doc1_paragraphs, context.doc2_paragraphs, ...) reads
\* doc1_content.paragraphs and doc2_content.paragraphs; the AttributeError of a value
\* without them is caught by the stage
\* the similarity_service given to execute: the repository's SimilarityService reads
\* .paragraphs of its two arguments; a service injected by the caller may take the
\* paragraph lists as they are
takes_paragraphs(service, value) ==
    service = "injected" \/ has_paragraphs(value)

SimilarityDetectionStage(ctx, req, e) ==
    LET S == "SimilarityDetectionStage" IN
    IF /\ takes_paragraphs(e.similarity_service, ctx.doc1_paragraphs)
       /\ takes_paragraphs(e.similarity_service, ctx.doc2_paragraphs)
    THEN StageResult(TRUE, "None",
                     [report_all(ctx, S, <<0, 8, 10>>) EXCEPT
                         !.similarity_result = [type |-> "SimilarityResult", len |-> 0],
                         !.status = "detecting"])
    ELSE StageResult(FALSE, "detection failed",
                     set_error(report_all(ctx, S, <<0>>), "detection failed"))

PostProcessingStage(ctx, req, e) ==
    LET S == "PostProcessingStage" IN
    IF falsy(ctx.similarity_result)
    THEN StageResult(FALSE, "no similarity result",
                     set_error(report_all(ctx, S, <<0>>), "no similarity result"))
    ELSE StageResult(TRUE, "None",
                     [report_all(ctx, S, <<0, 3, 6, 10>>)
                         EXCEPT !.status = "post_processing"])

\* an ExportStage that fails when generate_exports raises
ExportStage_failing(ctx, req, e) ==
    LET S == "ExportStage" IN
    IF falsy(ctx.similarity_result)
    THEN with_warnings(StageResult(TRUE, "None", report_all(ctx, S, <<0>>)),
                       <<"no result, export skipped">>)
    ELSE IF e.export_raises
    THEN StageResult(FALSE, "export failed",
                     set_error(report_all(ctx, S, <<0, 2>>), "export failed"))
    ELSE StageResult(TRUE, "None",
                     [report_all(ctx, S, <<0, 2, 10>>) EXCEPT !.status = "exporting"])

ExportStage(ctx, req, e) ==
    LET S == "ExportStage" IN
    IF falsy(ctx.similarity_result)
    THEN with_warnings(StageResult(TRUE, "None", report_all(ctx, S, <<0>>)),
                       <<"no result, export skipped">>)
    ELSE IF e.export_raises
    THEN with_warnings(StageResult(TRUE, "None", report_all(ctx, S, <<0, 2>>)),
                       <<"export failed">>)
    ELSE StageResult(TRUE, "None",
                     [report_all(ctx, S, <<0, 2, 10>>) EXCEPT !.status = "exporting"])

\* stage.process(context, progress_callback)
process(stage, ctx, req, e) ==
    CASE stage = "ValidationStage" -> ValidationStage(ctx, req, e)
      [] stage = "ExtractionStage" -> ExtractionStage(ctx, req, e)
      [] stage = "PreprocessingStage" -> PreprocessingStage(ctx, req, e)
      [] stage = "SequenceGenerationStage" -> SequenceGenerationStage(ctx, req, e)
      [] stage = "SimilarityDetectionStage" -> SimilarityDetectionStage(ctx, req, e)
      [] stage = "PostProcessingStage" -> PostProcessingStage(ctx, req, e)
      [] stage = "ExportStage" -> ExportStage(ctx, req, e)

\* a variant of the failure branch that leaves the context as the stage left it
fail_run_none(ctx, error) == ctx

\* execute, when a stage has not succeeded
fail_run(ctx, error) == [ctx EXCEPT !.status = "failed", !.error = error]

\* the requests and the environments of the runs; similarity_threshold in hundredths
Requests ==
    [pdf1_path : BOOLEAN, pdf2_path : BOOLEAN, similarity_threshold : {60, 150},
     sequence_length : {8, 1}, max_sequences : {5000, 50},
     context_chars : {100, -1}]

Extractions == {"raises", "empty", "content"}

Environments ==
    [file1_valid : BOOLEAN, file2_valid : BOOLEAN,
     doc1 : Extractions, doc2 : Extractions, export_raises : BOOLEAN,
     similarity_service : {"SimilarityService", "injected"}]

NoResult == [success |-> FALSE, error |-> "None", failed_at_stage |-> "None",
             result |-> None, progress |-> 0]

PipelineInit ==
    /\ stage_classes = DEFAULT_STAGES
    /\ request \in Requests
    /\ env \in Environments
    /\ context = NewContext
    /\ stage_index = 0
    /\ stage_log = <<>>
    /\ execute_result = NoResult
    /\ warning_log = <<>>
    /\ pipeline_pc = "created"

\* no pipeline: the variables of the pipeline stay as they are here
PipelineIdle ==
    /\ stage_classes = DEFAULT_STAGES
    /\ request = [pdf1_path |-> TRUE, pdf2_path |-> TRUE, similarity_threshold |-> 60,
                  sequence_length |-> 8, max_sequences |-> 5000, context_chars |-> 100]
    /\ env = [file1_valid |-> TRUE, file2_valid |-> TRUE, doc1 |-> "content",
              doc2 |-> "content", export_raises |-> FALSE,
              similarity_service |-> "SimilarityService"]
    /\ context = NewContext
    /\ stage_index = 0
    /\ stage_log = <<>>
    /\ execute_result = NoResult
    /\ warning_log = <<>>
    /\ pipeline_pc = "idle"

\* pipeline.remove_stage(stage_name), before the run
RemoveStage(stage_name) ==
    /\ pipeline_pc = "created"
    /\ stage_classes' = remove_stage(stage_classes, stage_name)
    /\ UNCHANGED <<request, env, context, stage_index, stage_log, execute_result,
                   warning_log, pipeline_pc>>
    /\ UNCHANGED <<driver_vars, text_vars, scorer_vars, service_vars, task_vars>>

\* execute, up to the loop: the context is created
BeginExecute ==
    /\ pipeline_pc = "created"
    /\ context' = NewContext
    /\ stage_index' = 0
    /\ pipeline_pc' = "running"
    /\ UNCHANGED <<stage_classes, request, env, stage_log, execute_result,
                   warning_log>>
    /\ UNCHANGED <<driver_vars, text_vars, scorer_vars, service_vars, task_vars>>

\* one turn of the loop of execute
ExecuteStage ==
    /\ pipeline_pc = "running"
    /\ stage_index < Len(stage_classes)
    /\ LET stage == stage_classes[stage_index + 1]
           started == [context EXCEPT
                          !.current_stage = stage,
                          !.status = IF stage_index = 0 THEN "validating"
                                     ELSE "extracting"]
           result == process(stage, started, request, env)
       IN  /\ stage_log' = Append(stage_log, stage)
           /\ IF ~result.success
              THEN /\ context' = fail_run(result.context, result.error)
                   /\ execute_result' = [success |-> FALSE, error |-> result.error,
                                         failed_at_stage |-> stage, result |-> None,
                                         progress |-> result.context.progress]
                   /\ pipeline_pc' = "returned"
                   /\ UNCHANGED <<stage_index, warning_log>>
              ELSE /\ context' = result.context
                   /\ warning_log' = warning_log \o result.warnings
                   /\ stage_index' = stage_index + 1
                   /\ UNCHANGED <<execute_result, pipeline_pc>>
    /\ UNCHANGED <<stage_classes, request, env>>
    /\ UNCHANGED <<driver_vars, text_vars, scorer_vars, service_vars, task_vars>>

\* execute, after the loop
Complete ==
    /\ pipeline_pc = "running"
    /\ stage_index = Len(stage_classes)
    /\ context' = [context EXCEPT !.status = "completed", !.progress = 100]
    /\ execute_result' = [success |-> TRUE, error |-> "None",
                          failed_at_stage |-> "None",
                          result |-> context.similarity_result,
                          progress |-> 100]
    /\ pipeline_pc' = "returned"
    /\ UNCHANGED <<stage_classes, request, env, stage_index, stage_log,
                   warning_log>>
    /\ UNCHANGED <<driver_vars, text_vars, scorer_vars, service_vars, task_vars>>

(***************************************************************************)
(* The text layer: a raw paragraph is cleaned, its clean text is tokenized *)
(* and cut into windows, the list is capped, and the fragments left get    *)
(* their sketch keys.                                                      *)
(***************************************************************************)
\* the longest raw text
MaxRawLen == 4
\* the longest window
MaxWindow == 3

\* no context extracted yet
NoContext == [index |-> 0, context_length |-> 0, found |-> FALSE,
              before |-> <<>>, after |-> <<>>]

\* a Chinese character, a, A, 0, the space and the period
RawAlphabet == {2, 101, 131, 200, Space, Period}

RawTexts == UNION {[1..n -> RawAlphabet] : n \in 0..MaxRawLen}

WindowLengths == 2..MaxWindow

SequenceCaps == {MaxSequences - 1, MaxSequences}

TextInit ==
    /\ raw_text \in RawTexts
    /\ text_sequence_length \in WindowLengths
    /\ text_max_sequences \in SequenceCaps
    /\ clean = <<>>
    /\ text_tokens = <<>>
    /\ sequences = <<>>
    /\ kept = <<>>
    /\ hash_keys = <<>>
    /\ text_context = NoContext
    /\ text_pc = "raw"

\* no paragraph in the text layer
TextIdle ==
    /\ raw_text = <<>>
    /\ text_sequence_length = 2
    /\ text_max_sequences = MaxSequences
    /\ clean = <<>>
    /\ text_tokens = <<>>
    /\ sequences = <<>>
    /\ kept = <<>>
    /\ hash_keys = <<>>
    /\ text_context = NoContext
    /\ text_pc = "idle"

\* SymbolCleaner.clean_text on the raw text of the paragraph
CleanText ==
    /\ text_pc = "raw"
    /\ clean' = clean_text(raw_text)
    /\ text_pc' = "clean"
    /\ UNCHANGED <<driver_vars, pipeline_vars, scorer_vars, service_vars, task_vars>>
    /\ UNCHANGED <<raw_text, text_sequence_length, text_max_sequences, text_tokens,
                   sequences, kept, hash_keys, text_context>>

\* generate_from_paragraphs on the paragraph: it tokenizes the clean text and
\* emits the windows
GenerateSequences ==
    /\ text_pc = "clean"
    /\ text_tokens' = tokenize(clean)
    /\ sequences' = generate_from_paragraphs(<<clean>>, text_sequence_length)
    /\ text_pc' = "generated"
    /\ UNCHANGED <<driver_vars, pipeline_vars, scorer_vars, service_vars, task_vars>>
    /\ UNCHANGED <<raw_text, text_sequence_length, text_max_sequences, clean, kept,
                   hash_keys, text_context>>

\* _detect_similarity_sync: the cap on the number of fragments
LimitSequences ==
    /\ text_pc = "generated"
    /\ kept' = limit_sequences(sequences, text_max_sequences)
    /\ text_pc' = "limited"
    /\ UNCHANGED <<driver_vars, pipeline_vars, scorer_vars, service_vars, task_vars>>
    /\ UNCHANGED <<raw_text, text_sequence_length, text_max_sequences, clean,
                   text_tokens, sequences, hash_keys, text_context>>

\* create_hash_lookup_table and the lookup of the driver: the sketch keys of every
\* fragment kept (both compute the same keys)
CreateHashKeys ==
    /\ text_pc = "limited"
    /\ hash_keys' = [i \in 1..Len(kept) |-> sketch_keys(kept[i].sequence)]
    /\ text_pc' = "indexed"
    /\ UNCHANGED <<driver_vars, pipeline_vars, scorer_vars, service_vars, task_vars>>
    /\ UNCHANGED <<raw_text, text_sequence_length, text_max_sequences, clean,
                   text_tokens, sequences, kept, text_context>>

(***************************************************************************)
(* SimilarityService._extract_context_from_paragraph (the same code as     *)
(* DocumentProcessor.get_context_from_paragraph): the fragment is looked   *)
(* up in the clean text, the position is carried over to the raw text by   *)
(* counting valid characters, and the context is collected on both sides.  *)
(***************************************************************************)
\* str.find: the 0-based index of the first occurrence, -1 without one
find(text, sub) ==
    LET hits == {i \in 0..(Len(text) - Len(sub)) :
                    SubSeq(text, i + 1, i + Len(sub)) = sub}
    IN  IF hits = {} THEN -1 ELSE CHOOSE i \in hits : \A j \in hits : i <= j

\* 0-based raw indices of the valid characters, in order
valid_positions(raw) ==
    LET RECURSIVE From(_)
        From(i) == IF i > Len(raw) THEN <<>>
                   ELSE IF is_valid_char(raw[i]) THEN <<i - 1>> \o From(i + 1)
                   ELSE From(i + 1)
    IN  From(1)

\* for raw_pos, char in enumerate(raw): stop at the valid character number match_pos;
\* the last index when the loop runs out, 0 on an empty text
raw_pos_of(raw, match_pos) ==
    LET valid == valid_positions(raw) IN
    IF match_pos + 1 <= Len(valid) THEN valid[match_pos + 1]
    ELSE IF raw = <<>> THEN 0
    ELSE Len(raw) - 1

RECURSIVE collect_context(_, _, _)
\* the characters taken from chars, in order, up to the valid character that brings
\* the count to context_length
collect_context(chars, context_length, valid_count) ==
    IF chars = <<>> THEN <<>>
    ELSE IF is_valid_char(Head(chars)) /\ valid_count + 1 >= context_length
         THEN <<Head(chars)>>
         ELSE <<Head(chars)>>
              \o collect_context(Tail(chars), context_length,
                                 IF is_valid_char(Head(chars)) THEN valid_count + 1
                                 ELSE valid_count)

Reverse(s) == [i \in 1..Len(s) |-> s[Len(s) + 1 - i]]

RECURSIVE match_end(_, _, _, _)
\* while match_end_pos < len(raw) and valid_match_count < len(matched_text)
match_end(raw, match_end_pos, valid_match_count, matched_len) ==
    IF match_end_pos < Len(raw) /\ valid_match_count < matched_len
    THEN match_end(raw, match_end_pos + 1,
                   IF is_valid_char(raw[match_end_pos + 1]) THEN valid_match_count + 1
                   ELSE valid_match_count,
                   matched_len)
    ELSE match_end_pos

extract_context_from_paragraph(raw, clean_str, matched_text, context_length) ==
    LET match_pos == find(clean_str, matched_text) IN
    IF match_pos = -1 THEN [found |-> FALSE, before |-> <<>>, after |-> <<>>]
    ELSE LET raw_pos == raw_pos_of(raw, match_pos)
             match_end_pos == match_end(raw, raw_pos, 0, Len(matched_text))
         IN  [found |-> TRUE,
              before |-> Reverse(collect_context(Reverse(SubSeq(raw, 1, raw_pos)),
                                                 context_length, 0)),
              after |-> collect_context(SubSeq(raw, match_end_pos + 1, Len(raw)),
                                        context_length, 0)]

\* the longest context asked for on each side
MaxContext == 2

ContextLengths == 0..MaxContext

\* _detect_similarity_sync, step 4, for one fragment kept: its paragraph is read back
\* through its index and the context is extracted for context_chars // 2
ExtractContext ==
    /\ text_pc = "indexed"
    /\ kept # <<>>
    /\ \E i \in 1..Len(kept), context_length \in ContextLengths :
          text_context' =
              [index |-> i, context_length |-> context_length]
              @@ extract_context_from_paragraph(raw_text, clean, kept[i].sequence,
                                                context_length)
    /\ text_pc' = "reported"
    /\ UNCHANGED <<driver_vars, pipeline_vars, scorer_vars, service_vars, task_vars>>
    /\ UNCHANGED <<raw_text, text_sequence_length, text_max_sequences, clean,
                   text_tokens, sequences, kept, hash_keys>>

(***************************************************************************)
(* The scorer on its own: calculate_similarity and is_similar on two keys. *)
(***************************************************************************)
\* keys of five tokens (Chinese characters, a word, a number) and texts with
\* spaces
ScorerKeys ==
    {<<2, 3, 4, 5, 6>>, <<2, 3, 4, 5, 7>>, <<2, 3, 4, 5, 101, 102, 103, 104>>,
     <<2, 3, 4, 5, 200, 201, 202>>, <<8, 9, 10, 11, 12>>,
     <<101, Space, 102, Space, 103, Space, 104>>, <<101, Space, 102>>, <<101>>}

ScorerInit ==
    /\ scorer_seq1 \in ScorerKeys
    /\ scorer_seq2 \in ScorerKeys
    /\ scorer_min_similarity \in Thresholds
    /\ scorer_similarity = <<0, 1>>
    /\ scorer_similar = FALSE
    /\ scorer_pc = "start"

\* the scorer is not called
ScorerIdle ==
    /\ scorer_seq1 = <<>>
    /\ scorer_seq2 = <<>>
    /\ scorer_min_similarity = 60
    /\ scorer_similarity = <<0, 1>>
    /\ scorer_similar = FALSE
    /\ scorer_pc = "idle"

\* one turn of the worker's loop on the pair: calculate_similarity, then is_similar
ScorePair ==
    /\ scorer_pc = "start"
    /\ scorer_similarity' = calculate_similarity(scorer_seq1, scorer_seq2)
    /\ scorer_similar' = is_similar(scorer_similarity', scorer_min_similarity)
    /\ scorer_pc' = "scored"
    /\ UNCHANGED <<driver_vars, pipeline_vars, text_vars, service_vars, task_vars>>
    /\ UNCHANGED <<scorer_seq1, scorer_seq2, scorer_min_similarity>>

(***************************************************************************)
(* SimilarityService.detect_similarity: the mode settles the threshold and *)
(* the cap, the detection keeps the pairs that reach the threshold, and    *)
(* the statistics count them by band.  Similarities are in hundredths.     *)
(***************************************************************************)
\* a _configure_processing that leaves the values as asked in every mode
configure_processing_standard(processing_mode, threshold, cap) ==
    <<threshold, cap>>

\* SimilarityService._configure_processing
configure_processing(processing_mode, threshold, cap) ==
    IF processing_mode = "ultra_fast" THEN <<Max2(threshold, 90), Min2(cap, 2000)>>
    ELSE IF processing_mode = "fast" THEN <<Max2(threshold, 80), Min2(cap, 5000)>>
    ELSE <<threshold, cap>>

\* len([s for s in similar_sequences if ...]) for the three bands
create_statistics(similar) ==
    [similarSequencesFound |-> Len(similar),
     highSimilarityCount |-> Len(SelectSeq(similar, LAMBDA x : x > 90)),
     mediumSimilarityCount |-> Len(SelectSeq(similar, LAMBDA x : 80 < x /\ x <= 90)),
     lowSimilarityCount |-> Len(SelectSeq(similar, LAMBDA x : 75 <= x /\ x <= 80))]

NoStatistics ==
    [similarSequencesFound |-> 0, highSimilarityCount |-> 0,
     mediumSimilarityCount |-> 0, lowSimilarityCount |-> 0]

\* the most pairs compared
MaxPairs == 2

ProcessingModes == {"ultra_fast", "fast", "standard"}

RequestedThresholds == {50, 70, 75, 85, 95}

RequestedCaps == {1000, 3000, 8000}

ScoreValues == {60, 70, 75, 80, 85, 90, 95}

ScoreLists == UNION {[1..n -> ScoreValues] : n \in 0..MaxPairs}

ServiceInit ==
    /\ service_mode \in ProcessingModes
    /\ service_min_similarity \in RequestedThresholds
    /\ service_max_sequences \in RequestedCaps
    /\ service_scores \in ScoreLists
    /\ service_threshold = 0
    /\ service_max_seqs = 0
    /\ service_similar = <<>>
    /\ service_stats = NoStatistics
    /\ service_pc = "start"

\* no detection asked of the service
ServiceIdle ==
    /\ service_mode = "standard"
    /\ service_min_similarity = 75
    /\ service_max_sequences = 1000
    /\ service_scores = <<>>
    /\ service_threshold = 0
    /\ service_max_seqs = 0
    /\ service_similar = <<>>
    /\ service_stats = NoStatistics
    /\ service_pc = "idle"

\* detect_similarity: similarity_threshold, max_seqs = self._configure_processing(...)
ConfigureProcessing ==
    /\ service_pc = "start"
    /\ LET configured == configure_processing(service_mode, service_min_similarity,
                                              service_max_sequences)
       IN  /\ service_threshold' = configured[1]
           /\ service_max_seqs' = configured[2]
    /\ service_pc' = "configured"
    /\ UNCHANGED <<driver_vars, pipeline_vars, text_vars, scorer_vars, task_vars>>
    /\ UNCHANGED <<service_mode, service_min_similarity, service_max_sequences,
                   service_scores, service_similar, service_stats>>

\* _detect_similarity_sync, step 3: the generator built with similarity_threshold
\* keeps the pairs whose similarity reaches it
FindSimilar ==
    /\ service_pc = "configured"
    /\ service_similar' = SelectSeq(service_scores, LAMBDA x : x >= service_threshold)
    /\ service_pc' = "detected"
    /\ UNCHANGED <<driver_vars, pipeline_vars, text_vars, scorer_vars, task_vars>>
    /\ UNCHANGED <<service_mode, service_min_similarity, service_max_sequences,
                   service_scores, service_threshold, service_max_seqs, service_stats>>

\* _detect_similarity_sync: similarity_stats = SimilarityStatistics(...)
CreateStatistics ==
    /\ service_pc = "detected"
    /\ service_stats' = create_statistics(service_similar)
    /\ service_pc' = "done"
    /\ UNCHANGED <<driver_vars, pipeline_vars, text_vars, scorer_vars, task_vars>>
    /\ UNCHANGED <<service_mode, service_min_similarity, service_max_sequences,
                   service_scores, service_threshold, service_max_seqs, service_similar>>

(***************************************************************************)
(* main.py: the task table.  compare_documents adds an entry and creates   *)
(* the background task process_document_comparison; the task runs the      *)
(* pipeline and writes its progress and its outcome into its entry;        *)
(* delete_task cancels it and removes the entry.  The background task runs *)
(* on the event loop: what it does between two awaits is one step.         *)
(***************************************************************************)
\* the most compares submitted
MaxTasks == 1

TaskIds == 1..MaxTasks

\* a request that passed the request model and the checks of compare_documents
TaskRequest ==
    [pdf1_path |-> TRUE, pdf2_path |-> TRUE, similarity_threshold |-> 60,
     sequence_length |-> 8, max_sequences |-> 5000, context_chars |-> 100]

\* the environments of the compares: files the validation rejects, extractions
\* that raise, documents without paragraphs, with the services of the repository
\* and with an injected similarity service, with and without a failing export
TaskEnvironments ==
    LET base == [file1_valid |-> TRUE, file2_valid |-> TRUE, doc1 |-> "content",
                 doc2 |-> "content", export_raises |-> FALSE,
                 similarity_service |-> "SimilarityService"]
        injected == [base EXCEPT !.similarity_service = "injected"]
    IN  {base,
         [base EXCEPT !.file1_valid = FALSE],
         [base EXCEPT !.file2_valid = FALSE],
         [base EXCEPT !.doc1 = "raises"],
         [base EXCEPT !.doc2 = "raises"],
         [base EXCEPT !.doc1 = "empty"],
         [base EXCEPT !.doc2 = "empty"],
         injected,
         [injected EXCEPT !.export_raises = TRUE],
         [injected EXCEPT !.file1_valid = FALSE],
         [injected EXCEPT !.doc1 = "raises"],
         [injected EXCEPT !.doc2 = "empty"],
         [injected EXCEPT !.doc2 = "raises"],
         [injected EXCEPT !.file2_valid = FALSE]}

RECURSIVE run_stages(_, _, _, _)
\* the loop of ComparisonPipeline.execute over a list of stages
run_stages(ctx, req, e, stages) ==
    IF stages = <<>>
    THEN [success |-> TRUE, error |-> "None", failed_at_stage |-> "None",
          context |-> ctx]
    ELSE LET result == process(Head(stages), ctx, req, e) IN
         IF ~result.success
         THEN [success |-> FALSE, error |-> result.error,
               failed_at_stage |-> Head(stages), context |-> result.context]
         ELSE run_stages(result.context, req, e, Tail(stages))

\* what one step of the background task comes to
awaiting(pc, progress) ==
    [pc |-> pc, progress |-> progress, outcome |-> "awaiting", error |-> "None"]

returned(run) ==
    [pc |-> "finished", progress |-> run.context.progress,
     outcome |-> IF run.success THEN "success" ELSE "failure", error |-> run.error]

\* process_document_comparison from one await to the next: the awaits of a run are
\* the two extractions, detect_similarity of an injected service (the repository's
\* raises before it awaits) and generate_exports
advance(pc, req, e) ==
    CASE pc = "scheduled" ->
           LET run == run_stages(NewContext, req, e, <<"ValidationStage">>) IN
           IF ~run.success THEN returned(run)
           ELSE awaiting("extract_doc1", global_progress("ExtractionStage", 2))
      [] pc = "extract_doc1" ->
           IF e.doc1 = "raises"
           THEN returned(run_stages(NewContext, req, e, SubSeq(DEFAULT_STAGES, 1, 2)))
           ELSE awaiting("extract_doc2", global_progress("ExtractionStage", 6))
      [] pc = "extract_doc2" ->
           LET run == run_stages(NewContext, req, e, SubSeq(DEFAULT_STAGES, 1, 4)) IN
           IF ~run.success THEN returned(run)
           ELSE IF e.similarity_service = "injected"
           THEN awaiting("detect_similarity",
                         global_progress("SimilarityDetectionStage", 0))
           ELSE returned(run_stages(NewContext, req, e, SubSeq(DEFAULT_STAGES, 1, 5)))
      [] pc = "detect_similarity" ->
           LET run == run_stages(NewContext, req, e, SubSeq(DEFAULT_STAGES, 1, 6)) IN
           IF ~run.success \/ falsy(run.context.similarity_result)
           THEN returned(run_stages(NewContext, req, e, DEFAULT_STAGES))
           ELSE awaiting("generate_exports", global_progress("ExportStage", 2))
      [] pc = "generate_exports" ->
           returned(run_stages(NewContext, req, e, DEFAULT_STAGES))

\* the steps of the runs, computed once
advance_table ==
    {[pc |-> pc, env |-> e, step |-> advance(pc, TaskRequest, e)] :
        pc \in {"scheduled", "extract_doc1", "extract_doc2", "detect_similarity",
                "generate_exports"},
        e \in TaskEnvironments}

advance_of(pc, e) == (CHOOSE row \in advance_table : row.pc = pc /\ row.env = e).step

\* a task info as compare_documents creates it
NewTask ==
    [status |-> "pending", progress |-> 0, completed |-> FALSE, result |-> FALSE,
     error |-> "None"]

\* pipeline_progress_callback: active_tasks[task_id]["progress"] = progress
write_progress(info, progress) == [info EXCEPT !.progress = progress]

\* a success branch that stores the result and the progress only
finish_completed_result_only(info) ==
    [info EXCEPT !.progress = 100, !.result = TRUE]

\* the success branch of process_document_comparison
finish_completed(info) ==
    [info EXCEPT !.status = "completed", !.progress = 100, !.completed = TRUE,
                 !.result = TRUE]

\* a failure branch that records the error and leaves the task open
finish_error_open(info, error) == [info EXCEPT !.error = error]

\* the failure branches of process_document_comparison
finish_error(info, error) ==
    [info EXCEPT !.status = "error", !.error = error, !.completed = TRUE]

\* a background task as asyncio.create_task leaves it
NewCoro(e) == [pc |-> "scheduled", must_cancel |-> FALSE, env |-> e]

NoCoro == [pc |-> "none", must_cancel |-> FALSE, env |-> CHOOSE e \in TaskEnvironments : TRUE]

Running == {"scheduled", "extract_doc1", "extract_doc2", "detect_similarity",
            "generate_exports"}

\* a delete_task that leaves the background task alone
cancel_none(coro) == coro

\* task.cancel(): a task that has not finished gets CancelledError at its next step
cancel(coro) ==
    IF coro.pc \in Running THEN [coro EXCEPT !.must_cancel = TRUE] ELSE coro

\* GET /api/v1/task/{task_id}/status
get_task_status(tasks, task_id) ==
    IF task_id \notin DOMAIN tasks THEN [code |-> 404, status |-> "None", progress |-> 0]
    ELSE [code |-> 200, status |-> tasks[task_id].status,
          progress |-> tasks[task_id].progress]

TasksInit ==
    /\ active_tasks = <<>>
    /\ task_coro = [t \in TaskIds |-> NoCoro]
    /\ next_task_id = 1
    /\ key_errors = {}
    /\ deleting = {}

\* no compare submitted to the application
TasksIdle ==
    /\ active_tasks = <<>>
    /\ task_coro = [t \in TaskIds |-> NoCoro]
    /\ next_task_id = 0
    /\ key_errors = {}
    /\ deleting = {}

\* POST /api/v1/compare: the entry is added and the background task created
CompareDocuments ==
    /\ next_task_id \in TaskIds
    /\ \E e \in TaskEnvironments :
          task_coro' = [task_coro EXCEPT ![next_task_id] = NewCoro(e)]
    /\ active_tasks' = active_tasks @@ (next_task_id :> NewTask)
    /\ next_task_id' = next_task_id + 1
    /\ UNCHANGED <<key_errors, deleting>>
    /\ UNCHANGED <<driver_vars, pipeline_vars, text_vars, scorer_vars, service_vars>>

\* process_document_comparison runs from one await to the next, or to its end
RunTask(t) ==
    /\ task_coro[t].pc \in Running
    /\ ~task_coro[t].must_cancel
    /\ LET step == advance_of(task_coro[t].pc, task_coro[t].env) IN
       IF t \notin DOMAIN active_tasks
       THEN \* active_tasks[task_id] raises KeyError, in the handler of the error too
            /\ key_errors' = key_errors \cup {t}
            /\ task_coro' = [task_coro EXCEPT ![t].pc = "finished"]
            /\ UNCHANGED active_tasks
       ELSE /\ task_coro' = [task_coro EXCEPT ![t].pc = step.pc]
            /\ active_tasks' =
                 [active_tasks EXCEPT ![t] =
                     LET info == write_progress(@, step.progress) IN
                     IF step.outcome = "success" THEN finish_completed(info)
                     ELSE IF step.outcome = "failure" THEN finish_error(info, step.error)
                     ELSE info]
            /\ UNCHANGED key_errors
    /\ UNCHANGED <<next_task_id, deleting>>
    /\ UNCHANGED <<driver_vars, pipeline_vars, text_vars, scorer_vars, service_vars>>

\* the cancelled task is resumed with CancelledError, which no `except Exception`
\* of the run catches: it ends without another write
Cancelled(t) ==
    /\ task_coro[t].pc \in Running
    /\ task_coro[t].must_cancel
    /\ task_coro' = [task_coro EXCEPT ![t].pc = "cancelled", ![t].must_cancel = FALSE]
    /\ UNCHANGED <<active_tasks, next_task_id, key_errors, deleting>>
    /\ UNCHANGED <<driver_vars, pipeline_vars, text_vars, scorer_vars, service_vars>>

RemoveTask(tasks, t) == [x \in DOMAIN tasks \ {t} |-> tasks[x]]

\* DELETE /api/v1/task/{task_id}, up to the await of cleanup_files when the task has
\* a result, to its end otherwise
DeleteTask(t) ==
    /\ t \in DOMAIN active_tasks
    /\ t \notin deleting
    /\ task_coro' = [task_coro EXCEPT ![t] =
                        IF ~active_tasks[t].completed THEN cancel(@) ELSE @]
    /\ IF active_tasks[t].result
       THEN /\ deleting' = deleting \cup {t}
            /\ UNCHANGED active_tasks
       ELSE /\ active_tasks' = RemoveTask(active_tasks, t)
            /\ UNCHANGED deleting
    /\ UNCHANGED <<next_task_id, key_errors>>
    /\ UNCHANGED <<driver_vars, pipeline_vars, text_vars, scorer_vars, service_vars>>

\* delete_task after cleanup_files: del active_tasks[task_id]
FinishDelete(t) ==
    /\ t \in deleting
    /\ deleting' = deleting \ {t}
    /\ active_tasks' = RemoveTask(active_tasks, t)
    /\ UNCHANGED <<task_coro, next_task_id, key_errors>>
    /\ UNCHANGED <<driver_vars, pipeline_vars, text_vars, scorer_vars, service_vars>>

Init == DriverInit /\ PipelineIdle /\ TextIdle /\ ScorerIdle /\ ServiceIdle /\ TasksIdle

Next ==
    \/ Submit
    \/ \E c \in DOMAIN fut_state : WorkerStart(c)
    \/ \E c \in DOMAIN fut_state : WorkerScore(c)
    \/ \E c \in DOMAIN fut_state : WorkerFail(c)
    \/ Collect
    \/ CallbackReturn
    \/ Return
    \/ CancelRequest

Spec == Init /\ [][Next]_vars

InitPipeline == PipelineInit /\ DriverIdle /\ TextIdle /\ ScorerIdle /\ ServiceIdle /\ TasksIdle

NextPipeline ==
    \/ \E stage_name \in RemovableStages : RemoveStage(stage_name)
    \/ BeginExecute
    \/ ExecuteStage
    \/ Complete

SpecPipeline == InitPipeline /\ [][NextPipeline]_vars

InitText == TextInit /\ DriverIdle /\ PipelineIdle /\ ScorerIdle /\ ServiceIdle /\ TasksIdle

NextText ==
    \/ CleanText
    \/ GenerateSequences
    \/ LimitSequences
    \/ CreateHashKeys
    \/ ExtractContext

SpecText == InitText /\ [][NextText]_vars

InitScorer == ScorerInit /\ DriverIdle /\ PipelineIdle /\ TextIdle /\ ServiceIdle /\ TasksIdle

NextScorer == ScorePair

SpecScorer == InitScorer /\ [][NextScorer]_vars

InitService == ServiceInit /\ DriverIdle /\ PipelineIdle /\ TextIdle /\ ScorerIdle /\ TasksIdle

NextService ==
    \/ ConfigureProcessing
    \/ FindSimilar
    \/ CreateStatistics

SpecService == InitService /\ [][NextService]_vars

InitTasks ==
    TasksInit /\ DriverIdle /\ PipelineIdle /\ TextIdle /\ ScorerIdle /\ ServiceIdle

NextTasks ==
    \/ CompareDocuments
    \/ \E t \in TaskIds : RunTask(t)
    \/ \E t \in TaskIds : Cancelled(t)
    \/ \E t \in TaskIds : DeleteTask(t)
    \/ \E t \in TaskIds : FinishDelete(t)

SpecTasks == InitTasks /\ [][NextTasks]_vars

\* the event loop resumes every background task that can run: the worker threads of
\* the extractions return, and a cancelled task is resumed to be ended
FairTasks ==
    \A t \in TaskIds : WF_vars(RunTask(t)) /\ WF_vars(Cancelled(t))

SpecTasksFair == InitTasks /\ [][NextTasks]_vars /\ FairTasks

(***************************************************************************)
(* Properties of the match driver, for Spec.                               *)
(***************************************************************************)
Returned == driver_pc = "done"

NoChunkFailed == \A c \in DOMAIN fut_state : fut_state[c] # "failed"

\* the pairs the worker of chunk c has scored so far, in order
ScoredBy(c) == [k \in 1..fut_pos[c] |-> PairAt(c, k - 1)]

\* the pairs all the workers have scored so far
ScoredPairs == Flatten([c \in 1..Len(chunks) |-> ScoredBy(c)])

Count(s, x) == Cardinality({i \in DOMAIN s : s[i] = x})

ScoreOf(a, b) == similarity_of(file1_sequences[a].sequence, file2_sequences[b].sequence)

KeyOf(m) == identifier(m, file1_sequences, file2_sequences)

\* C1: every match of the returned list carries the score of its two fragments, and
\* that score is at least min_similarity
C1_ReturnedAtLeastThreshold ==
    \A i \in DOMAIN unique_sequences :
        /\ unique_sequences[i].similarity
              = ScoreOf(unique_sequences[i].a, unique_sequences[i].b)
        /\ AtLeast(unique_sequences[i].similarity, min_similarity)

\* a compare has returned matches after a worker scored a pair below the threshold
C1_Witness ==
    /\ Returned
    /\ unique_sequences # <<>>
    /\ \E i \in DOMAIN ScoredPairs :
          ~AtLeast(ScoreOf(ScoredPairs[i][1], ScoredPairs[i][2]), min_similarity)

\* C2: a pair is accepted exactly when its score is at least min_similarity, and
\* every pair of fragments (one of each document) whose score is at least
\* min_similarity is in the returned list, up to duplicates of the same two keys,
\* whether or not the two fragments share a sketch key
C2_EveryPairAtLeastThresholdReturned ==
    (Returned /\ NoChunkFailed) =>
        \A a \in DOMAIN file1_sequences, b \in DOMAIN file2_sequences :
            AtLeast(ScoreOf(a, b), min_similarity)
            <=> \E i \in DOMAIN unique_sequences :
                    KeyOf(unique_sequences[i])
                       = <<file1_sequences[a].sequence, file2_sequences[b].sequence>>

\* C3: in the returned list no two matches have the same pair of keys, and the match
\* kept for a pair of keys is the first one with it in the merged list
C3_OnePerKeyPairFirstKept ==
    Returned =>
        /\ \A i, j \in DOMAIN unique_sequences :
              i # j => KeyOf(unique_sequences[i]) # KeyOf(unique_sequences[j])
        /\ \A i \in DOMAIN unique_sequences :
              \E k \in DOMAIN all_similar_sequences :
                  /\ all_similar_sequences[k] = unique_sequences[i]
                  /\ \A l \in 1..(k - 1) :
                        KeyOf(all_similar_sequences[l]) # KeyOf(unique_sequences[i])
        /\ \A k \in DOMAIN all_similar_sequences :
              \E i \in DOMAIN unique_sequences :
                  KeyOf(unique_sequences[i]) = KeyOf(all_similar_sequences[k])

\* a compare has returned after merging two different matches with the same keys
C3_Witness ==
    /\ Returned
    /\ \E k, l \in DOMAIN all_similar_sequences :
          /\ k < l
          /\ all_similar_sequences[k] # all_similar_sequences[l]
          /\ KeyOf(all_similar_sequences[k]) = KeyOf(all_similar_sequences[l])

\* C4: the returned list is in descending order of score
C4_SortedByScoreDescending ==
    Returned =>
        \A i, j \in DOMAIN unique_sequences :
            i < j => ~SimGreater(unique_sequences[j].similarity,
                                 unique_sequences[i].similarity)

\* a compare has returned after merging a match ahead of one with a higher score
C4_Witness ==
    /\ Returned
    /\ Len(unique_sequences) >= 2
    /\ \E k, l \in DOMAIN all_similar_sequences :
          /\ k < l
          /\ SimGreater(all_similar_sequences[l].similarity,
                        all_similar_sequences[k].similarity)

\* the position of a match: document 2 paragraph and token start, then document 1's
TieKey(m) ==
    <<file2_sequences[m.b].paragraph_index, file2_sequences[m.b].start_token_pos,
      file1_sequences[m.a].paragraph_index, file1_sequences[m.a].start_token_pos>>

\* x <= y in the lexicographic order of tuples of the same length
LexLeq(x, y) ==
    \/ x = y
    \/ \E i \in DOMAIN x :
          /\ x[i] < y[i]
          /\ \A j \in 1..(i - 1) : x[j] = y[j]

\* C5: matches of equal score are returned in ascending order of (document 2
\* paragraph, document 2 token start, document 1 paragraph, document 1 token start)
C5_TiesByPosition ==
    Returned =>
        \A i, j \in DOMAIN unique_sequences :
            (i < j /\ SimEqual(unique_sequences[i].similarity,
                               unique_sequences[j].similarity))
            => LexLeq(TieKey(unique_sequences[i]), TieKey(unique_sequences[j]))

\* C8: once a cancel is requested during scoring no worker scores another pair and
\* the compare never returns a result (a step of a worker is one whole pair, so every
\* state is at a pair boundary of every worker)
C8_CancelStopsWorkers ==
    [][cancel_requested => (fut_pos' = fut_pos /\ driver_pc' # "done")]_vars

\* C9: when the batch of a worker has raised, the compare does not return a list
C9_FailedBatchFailsCompare ==
    (\E c \in DOMAIN fut_state : fut_state[c] = "failed") => ~Returned

\* C10: the workers call the scorer exactly once for every candidate pair and for no
\* other pair: when all batches are done the scored pairs are the candidate pairs
C10_ScoredPairsAreCandidatePairs ==
    (Returned /\ NoChunkFailed) =>
        /\ Len(ScoredPairs) = Len(candidate_pairs)
        /\ \A i \in DOMAIN ScoredPairs :
              Count(ScoredPairs, ScoredPairs[i]) = Count(candidate_pairs, ScoredPairs[i])

(***************************************************************************)
(* Properties of the pipeline, for SpecPipeline.                           *)
(***************************************************************************)
\* both paths given, both files valid, the threshold in range, both documents
\* with content
ValidInputs ==
    /\ request.pdf1_path /\ request.pdf2_path
    /\ request.similarity_threshold \in 0..100
    /\ env.file1_valid /\ env.file2_valid
    /\ env.doc1 = "content" /\ env.doc2 = "content"

\* C6: a compare of two valid documents with content, with the parameters in range,
\* under the default stages never fails, and when it returns it has run the seven
\* stages and is completed with a result
C6_ValidCompareCompletes ==
    (stage_classes = DEFAULT_STAGES /\ ValidInputs) =>
        /\ context.status # "failed"
        /\ pipeline_pc = "returned" =>
              /\ execute_result.success
              /\ execute_result.result # None
              /\ context.status = "completed"
              /\ stage_log = DEFAULT_STAGES

\* the stages run in the order of the stage list, each at most once; a run that
\* returned a failure is FAILED, has the error of the stage recorded and names the
\* last stage run
StagesInOrder ==
    /\ Len(stage_log) <= Len(stage_classes)
    /\ stage_log = SubSeq(stage_classes, 1, Len(stage_log))
    /\ \A i, j \in DOMAIN stage_log : i # j => stage_log[i] # stage_log[j]
    /\ (pipeline_pc = "returned" /\ ~execute_result.success) =>
          /\ context.status = "failed"
          /\ context.error # "None"
          /\ context.error = execute_result.error
          /\ execute_result.failed_at_stage = stage_log[Len(stage_log)]
    /\ context.status = "failed" => pipeline_pc = "returned"

\* C7: the stages run in the fixed order of the stage list, each at most once; when a
\* stage fails the status is FAILED with the error recorded, no later stage runs and
\* the status FAILED is never left
C7_StagesInOrderFailedIsFinal ==
    /\ []StagesInOrder
    /\ [][context.status = "failed" =>
             (context'.status = "failed" /\ stage_log' = stage_log)]_vars

\* a run has failed at a stage after the first, with stages of the list left
C7_Witness ==
    /\ pipeline_pc = "returned"
    /\ context.status = "failed"
    /\ Len(stage_log) >= 2
    /\ Len(stage_log) < Len(stage_classes)

\* the matches of fragment a of file 1 against the fragments of file 2, in the
\* order of file 2
MatchesOfFragment(a) ==
    SelectSeq([b \in 1..Len(file2_sequences) |->
                  [a |-> a, b |-> b, similarity |-> ScoreOf(a, b)]],
              LAMBDA m : AtLeast(m.similarity, min_similarity))

\* the matches of a list of fragments of file 1, fragment after fragment
MatchesOfFragments(as) ==
    Flatten([k \in 1..Len(as) |-> MatchesOfFragment(as[k])])

C12_ProgressAfterEachBatch ==
    /\ completed = Cardinality({c \in 1..(next_future - 1) : fut_state[c] = "done"})
    /\ progress_calls =
          [i \in 1..completed |->
              [progress |-> <<i, Len(chunks)>>, completed |-> i,
               total |-> Len(chunks)]]
    /\ (Returned /\ NoChunkFailed /\ Len(chunks) >= 1) =>
          /\ Len(progress_calls) = Len(chunks)
          /\ LET last == progress_calls[Len(progress_calls)]
             IN  last.progress[1] = last.progress[2]

\* a compare of two chunks has returned after the callback was called for both
C12_Witness ==
    /\ Returned
    /\ Len(chunks) >= 2
    /\ Len(progress_calls) = Len(chunks)
    /\ progress_calls[1].completed = 1
    /\ progress_calls[2].completed = 2

\* C13: every call of the callback that is under way was made by the driver, there
\* is never more than one under way, and only the driver's step after a collected
\* chunk adds a call
C13_CallbackOnlyFromDriverSerialized ==
    /\ [](/\ Cardinality(active_callbacks) <= 1
          /\ \A inv \in active_callbacks : inv.invoker = "driver")
    /\ [][progress_calls' # progress_calls =>
             (/\ driver_pc = "collect"
              /\ fut_state[next_future] = "done"
              /\ fut_pos' = fut_pos
              /\ Len(progress_calls') = Len(progress_calls) + 1)]_vars

\* the callback is under way for the first chunk while a worker is still scoring
\* another chunk
C13_Witness ==
    /\ driver_pc = "callback"
    /\ Cardinality(active_callbacks) = 1
    /\ next_future = 2
    /\ Len(chunks) >= 2
    /\ fut_state[2] = "running"
    /\ fut_pos[2] > 0

\* what a compare of the two files returns when every chunk completes: the matches
\* of the fragments of file 1 in the order of the candidate pairs, without
\* duplicates, sorted
ExpectedCompare ==
    LET pairs == generate_candidate_pairs(file1_sequences, file2_sequences)
        as == [i \in 1..Len(pairs) |-> pairs[i][1]]
    IN  sort_by_similarity(
            remove_duplicates(MatchesOfFragments(as), file1_sequences,
                              file2_sequences))

\* C14: the list a compare returns when every chunk completes is fixed by the two
\* files and the parameters alone: two compares of the same inputs return the
\* same matches in the same order with the same scores, whatever the number of
\* workers running at a time and the order in which they start, score and end
C14_CompareIsDeterministic ==
    (Returned /\ NoChunkFailed) => unique_sequences = ExpectedCompare

\* a compare of two chunks has returned several matches after the worker of the
\* second chunk ended before the worker of the first
C14_Witness ==
    /\ Returned
    /\ NoChunkFailed
    /\ Len(chunks) >= 2
    /\ finish_order[1] = 2
    /\ Len(unique_sequences) >= 2

(***************************************************************************)
(* Properties of the text layer, for SpecText, and of the scorer, for      *)
(* SpecScorer.                                                             *)
(***************************************************************************)
Generated == text_pc \in {"generated", "limited", "indexed", "reported"}

is_lower(c) == c \in 101..126

\* C15: a paragraph of token list T gives exactly max(0, |T| - N + 1) fragments,
\* the i-th made of the N tokens of T from position i on, and none when T has
\* fewer than N tokens (an empty paragraph among them)
C15_OneFragmentPerWindow ==
    Generated =>
        /\ Len(sequences) =
              (IF Len(text_tokens) - text_sequence_length + 1 > 0
               THEN Len(text_tokens) - text_sequence_length + 1 ELSE 0)
        /\ \A i \in 1..Len(sequences) :
              /\ Len(sequences[i].tokens) = text_sequence_length
              /\ sequences[i].tokens
                    = SubSeq(text_tokens, i, i + text_sequence_length - 1)
              /\ sequences[i].start_token_pos = i - 1
        /\ (Len(text_tokens) < text_sequence_length) => sequences = <<>>

\* a paragraph has given several fragments that differ
C15_Witness ==
    /\ Generated
    /\ Len(sequences) >= 2
    /\ sequences[1].tokens # sequences[2].tokens

\* C16: the match key of a fragment is its N token texts put one behind the other
\* with nothing between them, and it holds no space
C16_KeyIsTokensJoined ==
    Generated =>
        \A i \in 1..Len(sequences) :
            /\ sequences[i].sequence =
                  Flatten([j \in 1..text_sequence_length |->
                              text_tokens[i + j - 1].text])
            /\ Space \notin Range(sequences[i].sequence)

\* a fragment spans a word and a number that a space separates in the raw text and
\* in the clean text
C16_Witness ==
    /\ Generated
    /\ Len(sequences) >= 1
    /\ Space \in Range(raw_text)
    /\ Space \in Range(clean)
    /\ sequences[1].tokens[1].token_type = "english"
    /\ sequences[1].tokens[2].token_type = "number"

C18_EveryFragmentHasSketchKey ==
    (text_pc = "indexed") => \A i \in 1..Len(kept) : hash_keys[i] # <<>>

\* the number of tokens of a key as the claim counts them: its words when it holds
\* spaces, its characters otherwise
TokenCount(s) == IF Space \in Range(s) THEN WordCount(s) ELSE Len(s)

\* C19: when the token counts of the two keys differ by more than two the scorer
\* returns 0 and the pair is not reported
C19_EarlyRejectByTokenCount ==
    (/\ scorer_pc = "scored"
     /\ Abs(TokenCount(scorer_seq1) - TokenCount(scorer_seq2)) > MaxWordDiff)
        => (scorer_similarity[1] = 0 /\ ~scorer_similar)

\* ceil(total / cap)
Stride(total, cap) == (total + cap - 1) \div cap

\* C20: when the paragraph gave more fragments than the cap, the fragments kept
\* are those at the indices 0, s, 2s, ... with s = ceil(total / cap), in order
C20_CapKeepsStride ==
    (text_pc \in {"limited", "indexed", "reported"} /\ Len(sequences) > text_max_sequences) =>
        LET s == Stride(Len(sequences), text_max_sequences)
            n == (Len(sequences) + s - 1) \div s
        IN  kept = [k \in 1..n |-> sequences[(k - 1) * s + 1]]

(***************************************************************************)
(* Properties of the pipeline, for SpecPipeline (continued).               *)
(***************************************************************************)
\* the paths, the threshold and the files of the run are valid and no extraction
\* raises
NothingInvalid ==
    /\ request.pdf1_path /\ request.pdf2_path
    /\ request.similarity_threshold \in 0..100
    /\ env.file1_valid /\ env.file2_valid
    /\ env.doc1 # "raises" /\ env.doc2 # "raises"

\* C21: a run in which a document has no paragraphs returns success, completed,
\* with no error
C21_EmptyDocumentCompletesEmpty ==
    (/\ pipeline_pc = "returned"
     /\ NothingInvalid
     /\ env.doc1 = "empty" \/ env.doc2 = "empty")
        => (/\ execute_result.success
            /\ context.status = "completed"
            /\ context.error = "None")

\* a parameter of the request is outside the range documented for it
ParameterOutOfRange ==
    \/ request.similarity_threshold \notin 0..100
    \/ request.sequence_length \notin 4..20
    \/ request.max_sequences \notin 100..100000
    \/ request.context_chars \notin 0..1000

\* C22: when a parameter is out of range, no stage after validation runs and the
\* run returns a failure of the validation stage
C22_OutOfRangeFailsAtValidation ==
    ParameterOutOfRange =>
        /\ stage_log \in {<<>>, <<"ValidationStage">>}
        /\ pipeline_pc = "returned" =>
              /\ ~execute_result.success
              /\ execute_result.failed_at_stage = "ValidationStage"



(***************************************************************************)
(* C24: the context of a reported fragment in the raw text.                *)
(***************************************************************************)
\* the clean text keeps every valid character of the raw text, in order, so the
\* n-th character of the clean text that is not a separator is the n-th valid
\* character of the raw text
non_separators(text) == SelectSeq(text, LAMBDA c : ~isspace(c))

\* the part of the raw text a fragment was cut from: from the valid character of
\* its first token's first character to that of its last token's last character
fragment_raw_span(raw, clean_str, fragment) ==
    LET before_count == Len(non_separators(SubSeq(clean_str, 1, fragment.start_pos)))
        valid == valid_positions(raw)
    IN  SubSeq(raw, valid[before_count + 1] + 1,
               valid[before_count + Len(fragment.sequence)] + 1)

is_substring(sub, text) == find(text, sub) # -1

\* C24: for the reported fragment, the context before it, followed by the part of
\* the raw text the fragment was cut from, followed by the context after it, is a
\* contiguous substring of the raw text of its paragraph.
C24_ContextAroundRawSpan ==
    (text_pc = "reported") =>
        is_substring(text_context.before
                     \o fragment_raw_span(raw_text, clean, kept[text_context.index])
                     \o text_context.after,
                     raw_text)

\* the clean text keeps every valid character of the raw text
CleanKeepsValidCharacters ==
    (text_pc # "raw" /\ text_pc # "idle") =>
        Len(non_separators(clean)) = Len(valid_positions(raw_text))


(***************************************************************************)
(* Properties of the similarity service, for SpecService.                  *)
(***************************************************************************)
\* C23: whatever the threshold, the three bands of the statistics (above 0.9, above
\* 0.8 up to 0.9, and from the threshold up to 0.8) partition the similar sequences
\* found: the three counts add up to their number.
C23_BandsPartitionMatches ==
    (service_pc = "done") =>
        service_stats.highSimilarityCount + service_stats.mediumSimilarityCount
            + service_stats.lowSimilarityCount
        = service_stats.similarSequencesFound

\* C30: the threshold and the cap used for the detection follow the mode: ultra_fast
\* uses max(threshold, 0.9) and min(cap, 2000), fast uses max(threshold, 0.8) and
\* min(cap, 5000), standard uses the values asked for; the threshold used is never
\* below and the cap used never above the one asked for.
C30_ModeSettlesThresholdAndCap ==
    (service_pc \in {"configured", "detected", "done"}) =>
        /\ service_mode = "ultra_fast" =>
              /\ service_threshold = Max2(service_min_similarity, 90)
              /\ service_max_seqs = Min2(service_max_sequences, 2000)
        /\ service_mode = "fast" =>
              /\ service_threshold = Max2(service_min_similarity, 80)
              /\ service_max_seqs = Min2(service_max_sequences, 5000)
        /\ service_mode = "standard" =>
              /\ service_threshold = service_min_similarity
              /\ service_max_seqs = service_max_sequences
        /\ service_threshold >= service_min_similarity
        /\ service_max_seqs <= service_max_sequences
        /\ \A i \in 1..Len(service_similar) : service_similar[i] >= service_threshold

\* a detection in a fast mode that raised the threshold and lowered the cap
C30_Witness ==
    /\ service_pc = "detected"
    /\ service_mode \in {"ultra_fast", "fast"}
    /\ service_threshold > service_min_similarity
    /\ service_max_seqs < service_max_sequences
    /\ service_similar # <<>>


ExportRaised ==
    /\ "ExportStage" \in Range(stage_log)
    /\ ~falsy(context.similarity_result)
    /\ env.export_raises

\* C29: when generating the export files raises, the Export stage still succeeds
\* with a warning, the run ends COMPLETED and the result stays available.
C29_ExportFailureIsNotFatal ==
    ExportRaised =>
        /\ context.status # "failed"
        /\ "export failed" \in Range(warning_log)
        /\ pipeline_pc = "returned" =>
              /\ execute_result.success
              /\ context.status = "completed"
              /\ execute_result.result = context.similarity_result

\* a run that returned after generate_exports raised
C29_Witness ==
    /\ ExportRaised
    /\ pipeline_pc = "returned"
    /\ execute_result.result # None


(***************************************************************************)
(* Properties of the task table, for SpecTasks and SpecTasksFair.          *)
(***************************************************************************)
\* the entry of the task shows a final status and the completed flag
Terminal(t) ==
    /\ t \in DOMAIN active_tasks
    /\ active_tasks[t].status \in {"completed", "error"}
    /\ active_tasks[t].completed

\* the id was handed out and its entry is gone
Deleted(t) == t < next_task_id /\ t \notin DOMAIN active_tasks

C26_DeletedTaskStaysGone ==
    /\ [](/\ key_errors = {}
          /\ \A t \in TaskIds :
                Deleted(t) =>
                    /\ task_coro[t].pc \in Running => task_coro[t].must_cancel
                    /\ get_task_status(active_tasks, t).code = 404)
    /\ [][\A t \in TaskIds : Deleted(t) => Deleted(t)']_vars

\* a task deleted while it was waiting for an extraction, and ended by the cancel
C26_Witness ==
    \E t \in TaskIds :
        /\ Deleted(t)
        /\ task_coro[t].pc = "cancelled"
        /\ next_task_id > MaxTasks

\* C27: a task whose progress is 1.0 has the status completed; a task that is
\* pending or in error never shows the progress 1.0.
C27_FullProgressMeansCompleted ==
    \A t \in TaskIds :
        LET response == get_task_status(active_tasks, t) IN
        response.code = 200 =>
            /\ response.progress = 100 => response.status = "completed"
            /\ response.status \in {"pending", "error"} => response.progress # 100

\* a completed task at 1.0 whose last progress report was below 1.0
C27_Witness ==
    \E t \in DOMAIN active_tasks :
        /\ active_tasks[t].status = "completed"
        /\ active_tasks[t].progress = 100
        /\ task_coro[t].env.export_raises

====
